---- MODULE Spec2Model ----
(***************************************************************************)
(* Blackjack.py: a console blackjack round played against an automated     *)
(* dealer.  The model follows the script statement by statement: the       *)
(* session loop of __main__, PlayBlackjack.start/hit/stand/print_status/   *)
(* check_status, Hand.add_card/get_value and Deck.deal_card.               *)
(*                                                                         *)
(* pc is the position of the single thread of control, stack the return    *)
(* positions of the calls in progress.  An uncaught IndexError (pop from   *)
(* an empty list) ends the program: pc = "IndexError" and stack keeps the  *)
(* traceback.                                                              *)
(*                                                                         *)
(* random.shuffle may produce any of 52! orders.  The model draws the      *)
(* order from a bounded family: the deck is cut at one of the positions    *)
(* 0..MaxCut and then taken with a stride coprime to the deck size (every  *)
(* such stride, forwards and backwards).  User input is drawn from         *)
(* {"h","s","x"} and {"y","n","x"}, "x" standing for any invalid answer.   *)
(***************************************************************************)
EXTENDS Integers, Sequences, FiniteSets, TLC

\* ------------------------------------------------------------- bounds
MaxCut == 12        \* cuts of the modelled shuffles: 0..MaxCut
MaxRounds == 2      \* rounds played in one session

\* ------------------------------------------------- program constants
PLAYER_IN == 0
PLAYER_BUSTED == 1
BLACKJACK == 2
BLACKJACK_VAL == 21
ZERO_SCORE == 0
ACE_HARD_TO_SOFT == 10
WIN == 1
TIE == 0
LOSE == 0 - 1
DealerStandsAt == 17

ranks == <<"A", "2", "3", "4", "5", "6", "7", "8", "9", "10", "J", "Q", "K">>
suits == <<"Clubs", "Spade", "Diamond", "Hearts">>
values == ("A" :> 11) @@ ("2" :> 2) @@ ("3" :> 3) @@ ("4" :> 4) @@ ("5" :> 5)
          @@ ("6" :> 6) @@ ("7" :> 7) @@ ("8" :> 8) @@ ("9" :> 9)
          @@ ("10" :> 10) @@ ("J" :> 10) @@ ("Q" :> 10) @@ ("K" :> 10)

\* a name of the script that no statement has assigned yet
Unbound == 0 - 99

VARIABLES
    deck,        \* game.gameDeck.deck: list of cards, dealt from the end
    playerHand,  \* game.playerHand: [hand, numAce, value]
    dealerHand,  \* game.dealerHand: [hand, numAce, value]
    pc,          \* position of control
    stack,       \* return positions of the calls in progress
    status,      \* __main__ status
    response,    \* __main__ response
    gamestatus,  \* __main__ gamestatus
    win, tie, lose, play_game,
    DVal, PVal,  \* locals of check_status
    gv,          \* the last Hand.get_value() call: whose hand, the cards it
                 \* held, the pair returned
    rounds,      \* rounds whose result has been tallied (history)
    calls        \* how often stand() and check_status() have been called
                 \* on the current game (history)

vars == <<deck, playerHand, dealerHand, pc, stack, status, response,
          gamestatus, win, tie, lose, play_game, DVal, PVal, gv, rounds,
          calls>>

\* ------------------------------------------------------------- Card
Card(rank, suit) == [rank |-> rank, suit |-> suit, value |-> values[rank]]

\* ------------------------------------------------------------- Hand
Hand == [hand |-> <<>>, numAce |-> 0, value |-> 0]

\* mutant: the total is assigned the card's value instead of increased by it
add_card_assigning(h, card) ==
    [hand   |-> Append(h.hand, card),
     value  |-> card.value,
     numAce |-> IF card.rank = "A" THEN h.numAce + 1 ELSE h.numAce]

add_card(h, card) ==
    [hand   |-> Append(h.hand, card),
     value  |-> h.value + card.value,
     numAce |-> IF card.rank = "A" THEN h.numAce + 1 ELSE h.numAce]

\* mutant: the Ace reduction is applied without the test for an Ace
get_value_unguarded(h) ==
    LET v == h.value - (h.numAce - 1) * ACE_HARD_TO_SOFT
    IN  [self |-> [h EXCEPT !.value = v],
         ret  |-> IF v > BLACKJACK_VAL
                  THEN <<ZERO_SCORE, v - ACE_HARD_TO_SOFT>>
                  ELSE <<v - ACE_HARD_TO_SOFT, v>>]

\* mutant: the pair is returned in the other order
get_value_swapped(h) ==
    IF h.numAce # 0
    THEN LET v == h.value - (h.numAce - 1) * ACE_HARD_TO_SOFT
         IN  [self |-> [h EXCEPT !.value = v],
              ret  |-> IF v > BLACKJACK_VAL
                       THEN <<v - ACE_HARD_TO_SOFT, ZERO_SCORE>>
                       ELSE <<v, v - ACE_HARD_TO_SOFT>>]
    ELSE [self |-> h, ret |-> <<h.value, ZERO_SCORE>>]

\* Hand.get_value: self is the hand after the call, ret the returned pair
get_value(h) ==
    IF h.numAce # 0
    THEN LET v == h.value - (h.numAce - 1) * ACE_HARD_TO_SOFT
         IN  [self |-> [h EXCEPT !.value = v],
              ret  |-> IF v > BLACKJACK_VAL
                       THEN <<ZERO_SCORE, v - ACE_HARD_TO_SOFT>>
                       ELSE <<v - ACE_HARD_TO_SOFT, v>>]
    ELSE [self |-> h, ret |-> <<ZERO_SCORE, h.value>>]

\* ------------------------------------------------------------- Deck
Deck ==
    [i \in 1..(Len(ranks) * Len(suits)) |->
        Card(ranks[((i - 1) \div Len(suits)) + 1],
             suits[((i - 1) % Len(suits)) + 1])]

Coprime(a, b) == \A k \in 2..a : ~(a % k = 0 /\ b % k = 0)

\* the strides coprime to n: every one of them steps through the whole deck
Strides(n) == {x \in 1..(n - 1) : Coprime(x, n)}

\* the orders shuffle_deck may leave the deck in (a bounded family): the deck
\* is cut at c and then taken with stride s
Shuffles(d) ==
    { [i \in 1..Len(d) |-> d[(((i - 1) * s + c) % Len(d)) + 1]] :
        s \in Strides(Len(d)),
        c \in 0..MaxCut }

\* Deck.deal_card: list.pop()
Top(d) == d[Len(d)]
\* mutant: deal_card() reads the last card and leaves it in the deck
Rest_kept(d) == d

Rest(d) == SubSeq(d, 1, Len(d) - 1)

\* no stand() and no check_status() call has been made on this game
NoCalls == [stand |-> 0, check |-> 0]

\* no get_value() call has been made on the hands of this game
NoCall == [who |-> "none", cards |-> <<>>, ret |-> <<0, 0>>]

\* ------------------------------------------------------------- Init
\* the first game has been constructed (line 231), start() is about to run
Init ==
    /\ deck = Deck
    /\ playerHand = Hand
    /\ dealerHand = Hand
    /\ pc = "start_shuffle"
    /\ stack = <<>>
    /\ status = Unbound
    /\ response = ""
    /\ gamestatus = Unbound
    /\ win = 0 /\ tie = 0 /\ lose = 0
    /\ play_game = TRUE
    /\ DVal = Unbound /\ PVal = Unbound
    /\ gv = NoCall
    /\ rounds = 0
    /\ calls = NoCalls

\* ---------------------------------------------------- call helpers
\* the record of a get_value() call on hand h of `who`
Called(who, h) == [who |-> who, cards |-> h.hand, ret |-> get_value(h).ret]

\* ------------------------------------------------- PlayBlackjack.start
\* self.gameDeck.shuffle_deck()
StartShuffle ==
    /\ pc = "start_shuffle"
    /\ deck' \in Shuffles(deck)
    /\ pc' = "start_deal"
    /\ UNCHANGED <<playerHand, dealerHand, stack, status, response, gamestatus,
                   win, tie, lose, play_game, DVal, PVal, gv, rounds, calls>>

\* mutant: start() dealing the dealer a second card
StartDeal_dealer_two ==
    /\ pc = "start_deal"
    /\ Len(deck) >= 4
    /\ LET c1 == Top(deck)
           c2 == Top(Rest(deck))
           c3 == Top(Rest(Rest(deck)))
           c4 == Top(Rest(Rest(Rest(deck))))
       IN  /\ playerHand' = add_card(add_card(playerHand, c1), c2)
           /\ dealerHand' = add_card(add_card(dealerHand, c3), c4)
           /\ deck' = Rest(Rest(Rest(Rest(deck))))
    /\ pc' = "ps_dealer"
    /\ stack' = <<"start_check">> \o stack
    /\ UNCHANGED <<status, response, gamestatus, win, tie, lose, play_game,
                   DVal, PVal, gv, rounds, calls>>

\* two cards to the player, one to the dealer, then print_status()
StartDeal ==
    /\ pc = "start_deal"
    /\ Len(deck) >= 3
    /\ LET c1 == Top(deck)
           c2 == Top(Rest(deck))
           c3 == Top(Rest(Rest(deck)))
       IN  /\ playerHand' = add_card(add_card(playerHand, c1), c2)
           /\ dealerHand' = add_card(dealerHand, c3)
           /\ deck' = Rest(Rest(Rest(deck)))
    /\ pc' = "ps_dealer"
    /\ stack' = <<"start_check">> \o stack
    /\ UNCHANGED <<status, response, gamestatus, win, tie, lose, play_game,
                   DVal, PVal, gv, rounds, calls>>

\* mutant: start() without the check for an immediate blackjack
start_status_unchecked(v) == PLAYER_IN

\* status start() returns for the hard value it read
start_status(v) == IF v = BLACKJACK_VAL THEN BLACKJACK ELSE PLAYER_IN

\* PVal = self.playerHand.get_value()[1]; return BLACKJACK or PLAYER_IN
StartCheck ==
    /\ pc = "start_check"
    /\ gv' = Called("player", playerHand)
    /\ playerHand' = get_value(playerHand).self
    /\ status' = start_status(get_value(playerHand).ret[2])
    /\ pc' = "main_after_start"
    /\ UNCHANGED <<deck, dealerHand, stack, response, gamestatus, win, tie,
                   lose, play_game, DVal, PVal, rounds, calls>>

\* ------------------------------------------ PlayBlackjack.print_status
\* softDVal, DVal = self.dealerHand.get_value()
PrintStatusDealer ==
    /\ pc = "ps_dealer"
    /\ gv' = Called("dealer", dealerHand)
    /\ dealerHand' = get_value(dealerHand).self
    /\ pc' = "ps_player"
    /\ UNCHANGED <<deck, playerHand, stack, status, response, gamestatus, win,
                   tie, lose, play_game, DVal, PVal, rounds, calls>>

\* softPVal, PVal = self.playerHand.get_value(); the prints; return
PrintStatusPlayer ==
    /\ pc = "ps_player"
    /\ gv' = Called("player", playerHand)
    /\ playerHand' = get_value(playerHand).self
    /\ pc' = Head(stack)
    /\ stack' = Tail(stack)
    /\ UNCHANGED <<deck, dealerHand, status, response, gamestatus, win, tie,
                   lose, play_game, DVal, PVal, rounds, calls>>

\* --------------------------------------------------- PlayBlackjack.hit
\* self.playerHand.add_card(self.gameDeck.deal_card()); print_status()
HitDeal ==
    /\ pc = "hit_deal"
    /\ Len(deck) > 0
    /\ playerHand' = add_card(playerHand, Top(deck))
    /\ deck' = Rest(deck)
    /\ pc' = "ps_dealer"
    /\ stack' = <<"hit_check">> \o stack
    /\ UNCHANGED <<dealerHand, status, response, gamestatus, win, tie, lose,
                   play_game, DVal, PVal, gv, rounds, calls>>

\* deal_card() on an empty deck: list.pop() raises IndexError, uncaught
HitDealEmpty ==
    /\ pc = "hit_deal"
    /\ Len(deck) = 0
    /\ pc' = "IndexError"
    /\ stack' = <<"hit_deal">> \o stack
    /\ UNCHANGED <<deck, playerHand, dealerHand, status, response, gamestatus,
                   win, tie, lose, play_game, DVal, PVal, gv, rounds, calls>>

\* status hit() returns for the hard value it read
hit_status(v) ==
    IF v > BLACKJACK_VAL THEN PLAYER_BUSTED
    ELSE IF v = BLACKJACK_VAL THEN BLACKJACK
    ELSE PLAYER_IN

\* PVal = self.playerHand.get_value()[1]; return the status
HitCheck ==
    /\ pc = "hit_check"
    /\ gv' = Called("player", playerHand)
    /\ playerHand' = get_value(playerHand).self
    /\ status' = hit_status(get_value(playerHand).ret[2])
    /\ pc' = "main_after_hit"
    /\ UNCHANGED <<deck, dealerHand, stack, response, gamestatus, win, tie,
                   lose, play_game, DVal, PVal, rounds, calls>>

\* ------------------------------------------------- PlayBlackjack.stand
\* while self.dealerHand.get_value()[1] < 17
StandCond ==
    /\ pc = "stand_cond"
    /\ gv' = Called("dealer", dealerHand)
    /\ dealerHand' = get_value(dealerHand).self
    /\ IF get_value(dealerHand).ret[2] < DealerStandsAt
       THEN pc' = "stand_deal" /\ stack' = stack
       ELSE pc' = Head(stack) /\ stack' = Tail(stack)
    /\ UNCHANGED <<deck, playerHand, status, response, gamestatus, win, tie,
                   lose, play_game, DVal, PVal, rounds, calls>>

\* self.dealerHand.add_card(self.gameDeck.deal_card()); print_status()
StandDeal ==
    /\ pc = "stand_deal"
    /\ Len(deck) > 0
    /\ dealerHand' = add_card(dealerHand, Top(deck))
    /\ deck' = Rest(deck)
    /\ pc' = "ps_dealer"
    /\ stack' = <<"stand_cond">> \o stack
    /\ UNCHANGED <<playerHand, status, response, gamestatus, win, tie, lose,
                   play_game, DVal, PVal, gv, rounds, calls>>

\* deal_card() on an empty deck: list.pop() raises IndexError, uncaught
StandDealEmpty ==
    /\ pc = "stand_deal"
    /\ Len(deck) = 0
    /\ pc' = "IndexError"
    /\ stack' = <<"stand_deal">> \o stack
    /\ UNCHANGED <<deck, playerHand, dealerHand, status, response, gamestatus,
                   win, tie, lose, play_game, DVal, PVal, gv, rounds, calls>>

\* ------------------------------------------ PlayBlackjack.check_status
\* softDval, DVal = self.dealerHand.get_value()
CheckStatusDealer ==
    /\ pc = "cs_dealer"
    /\ gv' = Called("dealer", dealerHand)
    /\ dealerHand' = get_value(dealerHand).self
    /\ DVal' = get_value(dealerHand).ret[2]
    /\ calls' = [calls EXCEPT !.check = @ + 1]
    /\ pc' = "cs_player"
    /\ UNCHANGED <<deck, playerHand, stack, status, response, gamestatus, win,
                   tie, lose, play_game, PVal, rounds>>

\* softPVal, PVal = self.playerHand.get_value()
CheckStatusPlayer ==
    /\ pc = "cs_player"
    /\ gv' = Called("player", playerHand)
    /\ playerHand' = get_value(playerHand).self
    /\ PVal' = get_value(playerHand).ret[2]
    /\ pc' = "cs_result"
    /\ UNCHANGED <<deck, dealerHand, stack, status, response, gamestatus, win,
                   tie, lose, play_game, DVal, rounds, calls>>

\* mutant: check_status() without its last branch (P < D returns nothing)
check_status_fallthrough(P, D) ==
    IF P > BLACKJACK_VAL THEN LOSE
    ELSE IF D > BLACKJACK_VAL THEN WIN
    ELSE IF P = D THEN TIE
    ELSE IF P = BLACKJACK_VAL THEN WIN
    ELSE IF P > D THEN WIN
    ELSE Unbound

\* the if/elif chain of check_status over the two hard values; Unbound is
\* Python's None, returned when no branch is taken
check_status(P, D) ==
    IF P > BLACKJACK_VAL THEN LOSE
    ELSE IF D > BLACKJACK_VAL THEN WIN
    ELSE IF P = D THEN TIE
    ELSE IF P = BLACKJACK_VAL THEN WIN
    ELSE IF P > D THEN WIN
    ELSE IF P < D THEN LOSE
    ELSE Unbound

\* gamestatus = game.check_status(): the chain's result is returned and the
\* locals of the call are gone
CheckStatusResult ==
    /\ pc = "cs_result"
    /\ gamestatus' = check_status(PVal, DVal)
    /\ DVal' = Unbound
    /\ PVal' = Unbound
    /\ pc' = "tally"
    /\ UNCHANGED <<deck, playerHand, dealerHand, stack, status, response, win,
                   tie, lose, play_game, gv, rounds, calls>>

\* ------------------------------------------------------------ __main__
\* mutant: the session loop starting the next round on the game it has
MainLoop_reusing ==
    /\ pc = "main_loop"
    /\ IF play_game
       THEN /\ gv' = NoCall
            /\ calls' = NoCalls
            /\ pc' = "start_shuffle"
       ELSE /\ pc' = "done"
            /\ UNCHANGED <<gv, calls>>
    /\ UNCHANGED <<deck, playerHand, dealerHand, stack, status, response,
                   gamestatus, win, tie, lose, play_game, DVal, PVal, rounds>>

\* while play_game: game = PlayBlackjack(); status = game.start()
\* (a new game holds a new deck and new hands; the old ones are dropped)
MainLoop ==
    /\ pc = "main_loop"
    /\ IF play_game
       THEN /\ deck' = Deck
            /\ playerHand' = Hand
            /\ dealerHand' = Hand
            /\ gv' = NoCall
            /\ calls' = NoCalls
            /\ pc' = "start_shuffle"
       ELSE /\ pc' = "done"
            /\ UNCHANGED <<deck, playerHand, dealerHand, gv, calls>>
    /\ UNCHANGED <<stack, status, response, gamestatus, win, tie, lose,
                   play_game, DVal, PVal, rounds>>

\* if status == BLACKJACK: response = 's'; game.stand()  else: response = 'h'
MainAfterStart ==
    /\ pc = "main_after_start"
    /\ IF status = BLACKJACK
       THEN /\ response' = "s"
            /\ pc' = "stand_cond"
            /\ stack' = <<"turn_loop">> \o stack
            /\ calls' = [calls EXCEPT !.stand = @ + 1]
       ELSE /\ response' = "h"
            /\ pc' = "turn_loop"
            /\ stack' = stack
            /\ calls' = calls
    /\ UNCHANGED <<deck, playerHand, dealerHand, status, gamestatus, win, tie,
                   lose, play_game, DVal, PVal, gv, rounds>>

\* mutant: the turn loop does not test response (while True)
TurnLoop_untested ==
    /\ pc = "turn_loop"
    /\ pc' = "prompt"
    /\ UNCHANGED <<deck, playerHand, dealerHand, stack, status, response,
                   gamestatus, win, tie, lose, play_game, DVal, PVal, gv,
                   rounds, calls>>

\* while (response == 'h')
TurnLoop ==
    /\ pc = "turn_loop"
    /\ pc' = IF response = "h" THEN "prompt" ELSE "cs_dealer"
    /\ UNCHANGED <<deck, playerHand, dealerHand, stack, status, response,
                   gamestatus, win, tie, lose, play_game, DVal, PVal, gv,
                   rounds, calls>>

\* response = input('Hit or stay? ...')
Prompt ==
    /\ pc = "prompt"
    /\ response' \in {"h", "s", "x"}
    /\ pc' = "dispatch"
    /\ UNCHANGED <<deck, playerHand, dealerHand, stack, status, gamestatus,
                   win, tie, lose, play_game, DVal, PVal, gv, rounds, calls>>

\* mutant: every answer other than 'h' is taken as a stand
Dispatch_lenient ==
    /\ pc = "dispatch"
    /\ IF response = "h"
       THEN /\ pc' = "hit_deal"
            /\ UNCHANGED <<stack, response, calls>>
       ELSE /\ pc' = "stand_cond"
            /\ stack' = <<"turn_loop">> \o stack
            /\ calls' = [calls EXCEPT !.stand = @ + 1]
            /\ response' = "s"
    /\ UNCHANGED <<deck, playerHand, dealerHand, status, gamestatus, win, tie,
                   lose, play_game, DVal, PVal, gv, rounds>>

\* if response == 'h': game.hit() / elif 's': game.stand() / else: re-prompt
Dispatch ==
    /\ pc = "dispatch"
    /\ IF response = "h"
       THEN /\ pc' = "hit_deal"
            /\ UNCHANGED <<stack, response, calls>>
       ELSE IF response = "s"
       THEN /\ pc' = "stand_cond"
            /\ stack' = <<"turn_loop">> \o stack
            /\ calls' = [calls EXCEPT !.stand = @ + 1]
            /\ response' = response
       ELSE /\ pc' = "turn_loop"
            /\ response' = "h"
            /\ UNCHANGED <<stack, calls>>
    /\ UNCHANGED <<deck, playerHand, dealerHand, status, gamestatus, win, tie,
                   lose, play_game, DVal, PVal, gv, rounds>>

\* status = game.hit(): break on bust, stand() and break on blackjack
MainAfterHit ==
    /\ pc = "main_after_hit"
    /\ IF status = PLAYER_BUSTED
       THEN pc' = "cs_dealer" /\ UNCHANGED <<stack, calls>>
       ELSE IF status = BLACKJACK
       THEN /\ pc' = "stand_cond"
            /\ stack' = <<"cs_dealer">> \o stack
            /\ calls' = [calls EXCEPT !.stand = @ + 1]
       ELSE pc' = "turn_loop" /\ UNCHANGED <<stack, calls>>
    /\ UNCHANGED <<deck, playerHand, dealerHand, status, response, gamestatus,
                   win, tie, lose, play_game, DVal, PVal, gv, rounds>>

\* the tally, the print of it, and response = 'y'
Tally ==
    /\ pc = "tally"
    /\ win' = IF gamestatus = WIN THEN win + 1 ELSE win
    /\ tie' = IF gamestatus # WIN /\ gamestatus = TIE THEN tie + 1 ELSE tie
    /\ lose' = IF gamestatus # WIN /\ gamestatus # TIE /\ gamestatus = LOSE
               THEN lose + 1 ELSE lose
    /\ rounds' = rounds + 1
    /\ response' = "y"
    /\ pc' = "replay_loop"
    /\ UNCHANGED <<deck, playerHand, dealerHand, stack, status, gamestatus,
                   play_game, DVal, PVal, gv, calls>>

\* while response == 'y'
ReplayLoop ==
    /\ pc = "replay_loop"
    /\ pc' = IF response = "y" THEN "replay_prompt" ELSE "main_loop"
    /\ UNCHANGED <<deck, playerHand, dealerHand, stack, status, response,
                   gamestatus, win, tie, lose, play_game, DVal, PVal, gv,
                   rounds, calls>>

\* response = input('Play again? ...'); the session is cut off after
\* MaxRounds rounds by leaving "y" out of the answers
ReplayPrompt ==
    /\ pc = "replay_prompt"
    /\ response' \in {"y", "n", "x"}
    /\ response' = "y" => rounds < MaxRounds
    /\ pc' = "replay_dispatch"
    /\ UNCHANGED <<deck, playerHand, dealerHand, stack, status, gamestatus,
                   win, tie, lose, play_game, DVal, PVal, gv, rounds, calls>>

\* 'y': break / 'n': play_game = False / else: response = 'y'
ReplayDispatch ==
    /\ pc = "replay_dispatch"
    /\ IF response = "y"
       THEN pc' = "main_loop" /\ play_game' = play_game /\ response' = response
       ELSE IF response = "n"
       THEN pc' = "replay_loop" /\ play_game' = FALSE /\ response' = response
       ELSE pc' = "replay_loop" /\ play_game' = play_game /\ response' = "y"
    /\ UNCHANGED <<deck, playerHand, dealerHand, stack, status, gamestatus,
                   win, tie, lose, DVal, PVal, gv, rounds, calls>>

Next ==
    \/ MainLoop \/ StartShuffle \/ StartDeal \/ StartCheck
    \/ PrintStatusDealer \/ PrintStatusPlayer
    \/ MainAfterStart \/ TurnLoop \/ Prompt \/ Dispatch
    \/ HitDeal \/ HitDealEmpty \/ HitCheck \/ MainAfterHit
    \/ StandCond \/ StandDeal \/ StandDealEmpty
    \/ CheckStatusDealer \/ CheckStatusPlayer \/ CheckStatusResult
    \/ Tally \/ ReplayLoop \/ ReplayPrompt \/ ReplayDispatch

Spec == Init /\ [][Next]_vars

\* ======================================================================
\* The valuation rule of a list of cards, computed from the cards alone
\* ======================================================================
RECURSIVE RawSum(_)
RawSum(cards) ==
    IF cards = <<>> THEN 0 ELSE values[Head(cards).rank] + RawSum(Tail(cards))

NumAces(cards) == Cardinality({i \in 1..Len(cards) : cards[i].rank = "A"})

RuleValue(cards) ==
    LET raw == RawSum(cards)
        n == NumAces(cards)
        adjusted == raw - (n - 1) * 10
    IN  IF n = 0 THEN <<0, raw>>
        ELSE IF adjusted > 21 THEN <<0, adjusted - 10>>
        ELSE <<adjusted - 10, adjusted>>

RuleHard(cards) == RuleValue(cards)[2]

RuleOutcome(P, D) ==
    IF P > 21 THEN LOSE
    ELSE IF D > 21 THEN WIN
    ELSE IF P = D THEN TIE
    ELSE IF P = 21 \/ P > D THEN WIN
    ELSE LOSE

\* positions at which the next step is a Hand.get_value() call
GetValuePcs ==
    {"ps_dealer", "ps_player", "start_check", "hit_check", "stand_cond",
     "cs_dealer", "cs_player"}

\* stand() has returned in the current round
StandReturned ==
    \/ pc = "turn_loop" /\ response = "s"
    \/ pc = "cs_dealer" /\ (response = "s" \/ status = BLACKJACK)

\* ======================================================================
\* Claims
\* ======================================================================

\* C1: every get_value() call returns the pair the rule gives for the cards
\* the hand holds at the call, whatever calls came before.
C1_GetValueFollowsRule ==
    gv.who # "none" => gv.ret = RuleValue(gv.cards)

\* C2: check_status() returns the outcome the precedence rule gives for the
\* hard values of the cards the two hands hold.
C2_OutcomeOfHeldCards ==
    pc = "tally" =>
        gamestatus = RuleOutcome(RuleHard(playerHand.hand),
                                 RuleHard(dealerHand.hand))

\* C3: the dealer's draw loop finishes normally (it is never ended by an
\* error), and when stand() has returned the dealer's cards are worth at
\* least 17.
C3_DealerTurnFinishes ==
    /\ ~(pc = "IndexError" /\ Head(stack) = "stand_deal")
    /\ StandReturned => RuleHard(dealerHand.hand) >= 17

\* C4: in stand() a card goes to the dealer only while the cards the dealer
\* holds are worth less than 17.
C4_DealerDrawsOnlyBelow17 ==
    [][(pc = "stand_deal" /\ dealerHand'.hand # dealerHand.hand)
          => RuleHard(dealerHand.hand) < 17]_vars

\* C5: hit() deals exactly one card to the player and reports BUSTED, BLACKJACK
\* or PLAYER_IN by the hard value of the cards the player then holds.
C5_HitReportsHeldCards ==
    /\ [](pc = "main_after_hit" =>
            status = (IF RuleHard(playerHand.hand) > 21 THEN PLAYER_BUSTED
                      ELSE IF RuleHard(playerHand.hand) = 21 THEN BLACKJACK
                      ELSE PLAYER_IN))
    /\ [][(pc = "hit_deal" /\ pc' # "IndexError")
            => /\ playerHand'.hand = Append(playerHand.hand, Top(deck))
               /\ deck' = Rest(deck)
               /\ dealerHand'.hand = dealerHand.hand]_vars

\* C6: start() leaves the player with 2 cards, the dealer with 1 and the deck
\* with 49, and reports BLACKJACK exactly when the player's two cards are worth
\* 21 (an Ace with a ten-valued card); after BLACKJACK the session runs the
\* dealer turn with no prompt and no hit().
TenValued(c) == values[c.rank] = 10

C6_StartDealsAndReports ==
    /\ pc = "main_after_start" =>
          /\ Len(playerHand.hand) = 2
          /\ Len(dealerHand.hand) = 1
          /\ Len(deck) = 49
          /\ status \in {BLACKJACK, PLAYER_IN}
          /\ status = BLACKJACK <=> RuleHard(playerHand.hand) = 21
          /\ status = BLACKJACK <=>
                \E i, j \in 1..2 : /\ playerHand.hand[i].rank = "A"
                                   /\ TenValued(playerHand.hand[j])
    /\ (status = BLACKJACK /\ Len(playerHand.hand) = 2) =>
          /\ pc \notin {"prompt", "dispatch", "hit_deal", "hit_check",
                        "main_after_hit"}
          /\ pc \in {"turn_loop", "cs_dealer", "cs_player", "cs_result", "tally"}
                => response = "s" /\ Len(dealerHand.hand) >= 2

C6_Witness ==
    /\ pc = "cs_dealer"
    /\ status = BLACKJACK
    /\ Len(playerHand.hand) = 2
    /\ Len(dealerHand.hand) >= 2

\* C7: deal_card() is never invoked on an empty deck.
C7_DeckNeverExhausted ==
    pc # "IndexError"

\* C8: the deck and the two hands are pairwise disjoint and together hold
\* exactly the 52 distinct (rank, suit) cards; after N deals the deck holds
\* 52 - N cards.
Face(cards) == {<<cards[i].rank, cards[i].suit>> : i \in 1..Len(cards)}

FullPack == {<<ranks[r], suits[u]>> : r \in 1..13, u \in 1..4}

C8_WithoutReplacement ==
    LET inDeck == Face(deck)
        inPlayer == Face(playerHand.hand)
        inDealer == Face(dealerHand.hand)
    IN  /\ Len(deck) = 52 - (Len(playerHand.hand) + Len(dealerHand.hand))
        /\ inDeck \cup inPlayer \cup inDealer = FullPack
        /\ Cardinality(inDeck) = Len(deck)
        /\ Cardinality(inPlayer) = Len(playerHand.hand)
        /\ Cardinality(inDealer) = Len(dealerHand.hand)
        /\ inDeck \cap inPlayer = {}
        /\ inDeck \cap inDealer = {}
        /\ inPlayer \cap inDealer = {}

C8_Witness ==
    /\ pc = "tally"
    /\ Len(playerHand.hand) >= 3
    /\ Len(dealerHand.hand) >= 3
    /\ Len(deck) <= 46

\* C9: get_value() (called by print_status, check_status, start, hit and
\* stand) leaves the stored state of both hands unchanged.
C9_GetValueIsPure ==
    [][(pc \in GetValuePcs)
          => (playerHand' = playerHand /\ dealerHand' = dealerHand)]_vars

\* C10: each hand's stored total is the sum of its cards' values with every
\* Ace as 11, and its stored Ace count is the number of Aces it holds.
C10_StoredTotals ==
    \A h \in {playerHand, dealerHand} :
        h.value = RawSum(h.hand) /\ h.numAce = NumAces(h.hand)

\* the round is over: its result has been returned, or the program has
\* ended with an uncaught error
RoundEnded ==
    pc \in {"tally", "replay_loop", "replay_prompt", "replay_dispatch",
            "main_loop", "done", "IndexError"}

InCheckStatus == pc \in {"cs_dealer", "cs_player", "cs_result"}

\* C11: in every round check_status() is invoked exactly once and only after
\* stand() has completed or hit() has reported PLAYER_BUSTED; stand() runs
\* exactly once in a round without a bust and never in a round with one.
C11_RoundOrdering ==
    /\ calls.check <= 1
    /\ calls.stand <= 1
    /\ InCheckStatus =>
          \/ status = PLAYER_BUSTED /\ calls.stand = 0
          \/ status # PLAYER_BUSTED /\ calls.stand = 1 /\ stack = <<>>
    /\ RoundEnded =>
          /\ calls.check = 1
          /\ calls.stand = 1 <=> status # PLAYER_BUSTED

\* control is inside print_status() called from `from`
InPrintStatus(from) == pc \in {"ps_dealer", "ps_player"} /\ Head(stack) = from

\* the player is being prompted or hit() is running
InPlayerTurn ==
    \/ pc \in {"prompt", "dispatch", "hit_deal", "hit_check"}
    \/ InPrintStatus("hit_check")

\* start() has returned in the current round
StartReturned ==
    /\ Len(playerHand.hand) >= 2
    /\ pc # "start_check"
    /\ ~InPrintStatus("start_check")

\* the player's turn is closed: BLACKJACK or PLAYER_BUSTED has been reported
\* in this round, or stand() has been called
TurnClosed ==
    \/ calls.stand > 0
    \/ StartReturned /\ pc # "hit_check" /\ ~InPrintStatus("hit_check")
          /\ status \in {BLACKJACK, PLAYER_BUSTED}

\* C12: once start() or hit() has reported BLACKJACK, hit() has reported
\* PLAYER_BUSTED, or stand() has run, the player is not prompted again and
\* receives no further card in that round.
C12_NoHitAfterTurnClosed ==
    /\ [](InPlayerTurn =>
            status = PLAYER_IN /\ calls.stand = 0 /\ calls.check = 0)
    /\ [][(TurnClosed /\ pc # "main_loop")
            => /\ pc' \notin {"prompt", "dispatch", "hit_deal"}
               /\ playerHand'.hand = playerHand.hand]_vars

C12_Witness ==
    /\ pc = "cs_dealer"
    /\ status = BLACKJACK
    /\ calls.stand = 1
    /\ Len(playerHand.hand) >= 3

\* deck, hands and tally
Table == <<deck, playerHand, dealerHand, win, tie, lose>>

\* C13: an invalid turn answer leaves deck, hands and tally unchanged, keeps
\* the round in progress and leads to another turn prompt; an invalid replay
\* answer leaves the tally unchanged, starts no round, does not end the
\* session and leads to another replay prompt.
C13_InvalidInputReprompts ==
    /\ [][(pc = "dispatch" /\ response \notin {"h", "s"})
            => /\ UNCHANGED <<Table, calls, rounds, status, stack>>
               /\ pc' = "turn_loop"
               /\ response' = "h"]_vars
    /\ [][(pc = "turn_loop" /\ response = "h")
            => UNCHANGED <<Table, calls, rounds, status>> /\ pc' = "prompt"]_vars
    /\ [][(pc = "replay_dispatch" /\ response \notin {"y", "n"})
            => /\ UNCHANGED <<Table, calls, rounds, play_game>>
               /\ play_game
               /\ pc' = "replay_loop"
               /\ response' = "y"]_vars
    /\ [][(pc = "replay_loop" /\ response = "y")
            => /\ UNCHANGED <<Table, calls, rounds, play_game>>
               /\ pc' = "replay_prompt"]_vars

C13_Witness ==
    /\ pc = "dispatch"
    /\ response = "x"
    /\ Len(playerHand.hand) >= 3
    /\ rounds >= 1

\* the last get_value() call was made on a hand of exactly one Ace whose raw
\* sum is at most 21
OneAceCall ==
    gv.who # "none" /\ NumAces(gv.cards) = 1 /\ RawSum(gv.cards) <= 21

\* C14 as stated: for such a hand the first component of the returned pair
\* is the second plus 10 and the second is the raw sum minus 10.
C14_FirstIsSecondPlusTen ==
    OneAceCall => gv.ret[1] = gv.ret[2] + 10 /\ gv.ret[2] = RawSum(gv.cards) - 10

\* C14 amended: for such a hand the second component of the returned pair is
\* the first plus 10 and the first is the raw sum minus 10.
C14_SecondIsFirstPlusTen ==
    OneAceCall => gv.ret[2] = gv.ret[1] + 10 /\ gv.ret[1] = RawSum(gv.cards) - 10

C14_Witness ==
    /\ OneAceCall
    /\ Len(gv.cards) >= 3
    /\ pc = "cs_result"

\* C15: for a hand holding no Ace every get_value() call returns
\* (0, raw sum), however many calls were made before.
C15_NoAceValue ==
    (gv.who # "none" /\ NumAces(gv.cards) = 0)
        => gv.ret = <<0, RawSum(gv.cards)>>

\* a no-Ace hand of three or more cards valued by check_status(), after the
\* calls of start(), hit() and every print_status()
C15_Witness ==
    /\ gv.who = "player"
    /\ NumAces(gv.cards) = 0
    /\ Len(gv.cards) >= 3
    /\ pc = "cs_result"

\* the step in which print_status(), called by stand() after a draw, values
\* the dealer's hand: gv holds the value the loop condition read before the
\* draw, gv' the value read after it
DealerValuedAfterDraw == pc = "ps_dealer" /\ Head(stack) = "stand_cond"

\* no Ace of the cards has to count as 1: there is no Ace, or one Ace and a
\* raw sum of at most 21
NoAceReduced(cards) ==
    \/ NumAces(cards) = 0
    \/ NumAces(cards) = 1 /\ RawSum(cards) <= 21

DrawNeverLowersOneAce ==
    [][(DealerValuedAfterDraw /\ NumAces(dealerHand.hand) <= 1
            /\ NumAces(playerHand.hand) <= 1)
          => gv'.ret[2] >= gv.ret[2]]_vars

C17_DealerHoldsOneCard ==
    /\ (Len(playerHand.hand) >= 2 /\ calls.stand = 0)
          => Len(dealerHand.hand) = 1
    /\ (InCheckStatus /\ status = PLAYER_BUSTED)
          => Len(dealerHand.hand) = 1 /\ calls.stand = 0

C17_Witness ==
    /\ pc = "cs_result"
    /\ status = PLAYER_BUSTED
    /\ Len(playerHand.hand) >= 4
    /\ Len(dealerHand.hand) = 1

\* the three counters of the session loop
Counters == <<win, tie, lose>>

\* C18: every round that reaches check_status() gets one of WIN, TIE, LOSE as
\* its result and adds one to exactly the counter of that result, so that
\* win + tie + lose is the number of completed rounds and no counter ever
\* decreases.
C18_TallyCountsRounds ==
    /\ [](win + tie + lose = rounds)
    /\ [](pc = "tally" => gamestatus \in {WIN, TIE, LOSE})
    /\ [][/\ win' >= win /\ tie' >= tie /\ lose' >= lose
          /\ pc # "tally" => Counters' = Counters
          /\ pc = "tally" =>
                /\ rounds' = rounds + 1
                /\ gamestatus = WIN => Counters' = <<win + 1, tie, lose>>
                /\ gamestatus = TIE => Counters' = <<win, tie + 1, lose>>
                /\ gamestatus = LOSE => Counters' = <<win, tie, lose + 1>>]_vars

C18_Witness ==
    /\ rounds = MaxRounds
    /\ win >= 1
    /\ lose >= 1
    /\ pc = "replay_loop"

\* a hand as Hand.__init__ leaves it
FreshHand(h) == h.hand = <<>> /\ h.value = ZERO_SCORE /\ h.numAce = 0

\* C19: whenever start() is invoked, in the first round and in every later
\* one, the deck holds the 52 distinct cards and both hands are empty with
\* total 0 and Ace count 0; no call is in progress and no local of an earlier
\* call is bound, and the status the session loop acts on after start() is
\* the one this round's start() returned, never the one left by the round
\* before.
C19_RoundStartsFresh ==
    /\ pc = "start_shuffle" =>
          /\ Len(deck) = 52
          /\ Face(deck) = FullPack
          /\ FreshHand(playerHand)
          /\ FreshHand(dealerHand)
          /\ stack = <<>>
          /\ DVal = Unbound /\ PVal = Unbound
          /\ gv = NoCall /\ calls = NoCalls
    /\ pc = "main_after_start" =>
          /\ status \in {PLAYER_IN, BLACKJACK}
          /\ Len(playerHand.hand) = 2
          /\ Len(dealerHand.hand) = 1
          /\ Len(deck) = 49

C19_Witness ==
    /\ pc = "start_shuffle"
    /\ rounds >= 1
    /\ status = PLAYER_BUSTED
    /\ lose >= 1

====
